---- MODULE Spec2Model ----
(***************************************************************************)
(* A model of yangparse: the scanner of src/src/lexing.rs, the             *)
(* statement-tree builder of src/src/parsing.rs and the pretty-printer of  *)
(* src/src/formatting.rs.                                                  *)
(*                                                                         *)
(* Characters are one-character strings, texts and buffers are sequences   *)
(* of characters.  Buffer indices are 0-based as in the source, so the     *)
(* character at index i of a buffer b is b[i + 1].                         *)
(***************************************************************************)
EXTENDS Integers, Sequences, FiniteSets, TLC

VARIABLES
    buffer,        \* scan: the input as a vector of characters
    cursor,        \* scan: index of the next character to dispatch on
    tokens,        \* scan: the tokens pushed so far
    scan_result,   \* scan: Running, Ok, Err (with message and position) or Panic
    consumed,      \* parse: the tokens the token iterator has yielded so far
    upcoming,      \* parse: what the iterator returns next: a token, the end or a failure
    stack,         \* parse: one frame per active parse_statements invocation
    error,         \* parse: the Err value travelling up the call chain, if any
    parse_result,  \* parse: Running, Ok (with the RootNode) or Err (with message)
    print_stack,   \* print_tree: one frame per active loop over a list of children
    out_lines,     \* print_tree: the lines written to out so far
    print_result   \* print_tree: Running, Ok or Panic

scan_vars == <<buffer, cursor, tokens, scan_result>>
parse_vars == <<consumed, upcoming, stack, error, parse_result>>
print_vars == <<print_stack, out_lines, print_result>>
vars == <<buffer, cursor, tokens, scan_result, consumed, upcoming, stack, error, parse_result,
          print_stack, out_lines, print_result>>

----------------------------------------------------------------------------
(* Bounds of the model *)

\* Number of pieces a scanned buffer is assembled from.
MaxPieces == 3

\* Number of tokens the token iterator yields to the parser.
MaxTokens == 5

\* Number of pieces of a buffer whose scan is followed to its end under
\* fairness.
MaxLivePieces == 2

\* Number of blocks nested in one another in a printed tree.
MaxNesting == 256

----------------------------------------------------------------------------
(* Option and Result values *)

None == [some |-> FALSE]
Some(v) == [some |-> TRUE, val |-> v]

Ok(v) == [kind |-> "Ok", val |-> v]
Err(e) == [kind |-> "Err", err |-> e]

\* print_tree has not been called.
PrintIdle ==
    /\ print_stack = <<>>
    /\ out_lines = <<>>
    /\ print_result = [kind |-> "Idle"]

----------------------------------------------------------------------------
(* Characters and texts *)

\* The decimal digits (regex \d restricted to the characters of the model).
Digit == {"0", "1", "2", "3", "4", "5", "6", "7", "8", "9"}

Letter == {"a", "b", "c", "d", "e", "f", "g", "h", "i", "j", "k", "l", "m",
           "n", "o", "p", "q", "r", "s", "t", "u", "v", "w", "x", "y", "z"}

\* A character whose UTF-8 encoding takes two bytes.
WideChar == "é"

\* Number of bytes of the UTF-8 encoding of a character.
len_utf8(c) == IF c = WideChar THEN 2 ELSE 1

RECURSIVE str_len(_)
\* String::len: the length of a text in bytes.
str_len(text) ==
    IF text = <<>> THEN 0 ELSE len_utf8(Head(text)) + str_len(Tail(text))

\* buffer.get(i).map_or(false, |c| c is in set)
CharIn(b, i, set) == i < Len(b) /\ b[i + 1] \in set

\* buffer.get(from..to) of an in-bounds range, collected into a text.
Slice(b, from, to) == SubSeq(b, from + 1, to)

----------------------------------------------------------------------------
(* src/src/lexing.rs: the helpers of scan *)

\* IS_NUMBER with the integer part allowed to start with any digit.
IS_NUMBER_leading_zero(text) ==
    LET body == IF text # <<>> /\ Head(text) = "-" THEN Tail(text) ELSE text
        n == Len(body)
        int_end == {i \in 1..n : \A j \in 1..i : body[j] \in Digit}
    IN  /\ n >= 1
        /\ \/ n \in int_end
           \/ \E i \in int_end :
                 /\ i + 2 <= n
                 /\ body[i + 1] = "."
                 /\ \A j \in (i + 2)..n : body[j] \in Digit

\* The pattern ^\-?(0|([1-9]\d*(\.\d+)?))$ as the regex engine walks it.
IS_NUMBER(text) ==
    LET body == IF text # <<>> /\ Head(text) = "-" THEN Tail(text) ELSE text
        n == Len(body)
        \* the indices of body at which the leading run of digits may stop
        int_end == {i \in 1..n : \A j \in 1..i : body[j] \in Digit}
    IN  \/ body = <<"0">>
        \/ /\ n >= 1
           /\ body[1] \in Digit \ {"0"}
           /\ \/ n \in int_end
              \/ \E i \in int_end :
                    /\ i + 2 <= n
                    /\ body[i + 1] = "."
                    /\ \A j \in (i + 2)..n : body[j] \in Digit

RECURSIVE position_loop(_, _, _, _, _)
position_loop(b, index, i, line, col) ==
    IF i = Len(b) \/ i = index THEN [line |-> line, col |-> col]
    ELSE IF b[i + 1] = "\n" THEN position_loop(b, index, i + 1, line + 1, 1)
    ELSE position_loop(b, index, i + 1, line, col + 1)

\* from_buffer_index counting lines and columns from 0.
from_buffer_index_zero_based(b, index) == position_loop(b, index, 0, 0, 0)

\* TextPosition::from_buffer_index
from_buffer_index(b, index) == position_loop(b, index, 0, 1, 1)

is_delimiter(c) == c \in {" ", "\t", "\r", "\n", ";", "{", "}"}

\* char::is_numeric, on the characters of the model
is_numeric(c) == c \in Digit

RECURSIVE whitespace_count(_, _)
whitespace_count(b, i) ==
    IF CharIn(b, i, {" ", "\t"}) THEN 1 + whitespace_count(b, i + 1) ELSE 0

\* read_whitespace reporting a run of whitespace as of length 0.
read_whitespace_stalls(b, start) ==
    LET count == whitespace_count(b, start)
    IN  IF count > 0 THEN Some(0) ELSE None

read_whitespace(b, start) ==
    LET count == whitespace_count(b, start)
    IN  IF count > 0 THEN Some(count) ELSE None

read_line_break(b, start) ==
    IF start < Len(b)
    THEN IF b[start + 1] = "\n" THEN Some(1)
         ELSE IF b[start + 1] = "\r" /\ CharIn(b, start + 1, {"\n"}) THEN Some(2)
         ELSE None
    ELSE None

RECURSIVE read_string_loop_no_escape(_, _, _, _, _, _)
\* read_string_loop with the test of the previous character left out.
read_string_loop_no_escape(b, start, quote_char, string, prev_char, cur) ==
    IF cur < Len(b)
    THEN LET curr_char == b[cur + 1]
             pushed == Append(string, curr_char)
         IN  IF curr_char = quote_char
             THEN Ok(Some(pushed))
             ELSE read_string_loop_no_escape(b, start, quote_char, pushed,
                                             Some(curr_char), cur + 1)
    ELSE Err([msg |-> "string was never terminated",
              at |-> from_buffer_index(b, start)])

RECURSIVE read_string_loop(_, _, _, _, _, _)
read_string_loop(b, start, quote_char, string, prev_char, cur) ==
    IF cur < Len(b)
    THEN LET curr_char == b[cur + 1]
             pushed == Append(string, curr_char)
             prev_char_is_backslash == prev_char.some /\ prev_char.val = "\\"
         IN  IF curr_char = quote_char /\ ~prev_char_is_backslash
             THEN Ok(Some(pushed))
             ELSE read_string_loop(b, start, quote_char, pushed, Some(curr_char), cur + 1)
    ELSE Err([msg |-> "string was never terminated",
              at |-> from_buffer_index(b, start)])

\* The initial cursor position is assumed to be a valid buffer index.
read_string(b, start) ==
    IF b[start + 1] \in {"\"", "'"}
    THEN read_string_loop(b, start, b[start + 1], <<b[start + 1]>>, None, start + 1)
    ELSE Ok(None)

RECURSIVE single_line_comment_length(_, _, _)
single_line_comment_length(b, i, length) ==
    IF read_line_break(b, i).some \/ i = Len(b) THEN length
    ELSE single_line_comment_length(b, i + 1, length + 1)

read_single_line_comment(b, start) ==
    IF ~(CharIn(b, start, {"/"}) /\ CharIn(b, start + 1, {"/"})) THEN None
    ELSE Some(Slice(b, start, start + single_line_comment_length(b, start + 2, 2)))

RECURSIVE read_block_comment_loop(_, _, _, _)
read_block_comment_loop(b, start, i, length) ==
    IF i = Len(b)
    THEN Err([msg |-> "block comment was never terminated",
              at |-> from_buffer_index(b, start)])
    ELSE IF CharIn(b, i, {"*"}) /\ CharIn(b, i + 1, {"/"})
    THEN Ok(Some(Slice(b, start, start + length)))
    ELSE read_block_comment_loop(b, start, i + 1, length + 1)

read_block_comment(b, start) ==
    IF ~(CharIn(b, start, {"/"}) /\ CharIn(b, start + 1, {"*"})) THEN Ok(None)
    ELSE read_block_comment_loop(b, start, start + 2, 4)

RECURSIVE read_other_loop(_, _, _)
read_other_loop(b, cur, string) ==
    IF cur < Len(b) /\ ~is_delimiter(b[cur + 1])
    THEN read_other_loop(b, cur + 1, Append(string, b[cur + 1]))
    ELSE string

read_other(b, cur) ==
    LET string == read_other_loop(b, cur, <<>>)
    IN  IF str_len(string) > 0 THEN Some(string) ELSE None

read_date(b, cur) ==
    IF cur + 10 <= Len(b)
    THEN LET chunk == Slice(b, cur, cur + 10)
         IN  IF /\ \A i \in {1, 2, 3, 4, 6, 7, 9, 10} : is_numeric(chunk[i])
                /\ chunk[5] = "-"
                /\ chunk[8] = "-"
             THEN Some(chunk)
             ELSE None
    ELSE None

\* The if / else-if chain of the scan loop: the first branch that matches at
\* buffer index c (a valid index).
Branch(b, c) ==
    IF read_whitespace(b, c).some THEN "whitespace"
    ELSE IF read_line_break(b, c).some THEN "line_break"
    ELSE IF b[c + 1] = "{" THEN "OpenCurlyBrace"
    ELSE IF b[c + 1] = "}" THEN "ClosingCurlyBrace"
    ELSE IF b[c + 1] = ";" THEN "SemiColon"
    ELSE IF read_string(b, c).kind = "Err" THEN "string_error"
    ELSE IF read_string(b, c).val.some THEN "String"
    ELSE IF read_single_line_comment(b, c).some THEN "single_line_comment"
    ELSE IF read_block_comment(b, c).kind = "Err" THEN "block_comment_error"
    ELSE IF read_block_comment(b, c).val.some THEN "block_comment"
    ELSE IF read_date(b, c).some THEN "Date"
    ELSE IF read_other(b, c).some THEN "other"
    ELSE "failed"

----------------------------------------------------------------------------
(* src/src/lexing.rs: scan, one action per branch of its loop *)

Scanning == scan_result.kind = "Running"

\* A loop iteration that gets past the two boundary checks.
Dispatching(branch) ==
    /\ Scanning
    /\ cursor < Len(buffer)
    /\ Branch(buffer, cursor) = branch

Token(type, start, end, text) ==
    [token_type |-> type, span |-> <<start, end>>, text |-> text]

\* macro push_char_token
push_char_token(type, char) ==
    /\ tokens' = Append(tokens, Token(type, cursor, cursor, <<char>>))
    /\ cursor' = cursor + 1

\* macro push_token
push_token(type, text) ==
    LET text_length == str_len(text)
    IN  /\ tokens' = Append(tokens, Token(type, cursor, cursor + text_length - 1, text))
        /\ cursor' = cursor + text_length

ScanBreak ==
    /\ Scanning
    /\ cursor = Len(buffer)
    /\ scan_result' = [kind |-> "Ok"]
    /\ UNCHANGED <<buffer, cursor, tokens>>
    /\ UNCHANGED <<parse_vars, print_vars>>

ScanPanic ==
    /\ Scanning
    /\ cursor > Len(buffer)
    /\ scan_result' = [kind |-> "Panic", msg |-> "Oops, we've read too far!"]
    /\ UNCHANGED <<buffer, cursor, tokens>>
    /\ UNCHANGED <<parse_vars, print_vars>>

SkipWhitespace ==
    /\ Dispatching("whitespace")
    /\ cursor' = cursor + read_whitespace(buffer, cursor).val
    /\ UNCHANGED <<buffer, tokens, scan_result>>
    /\ UNCHANGED <<parse_vars, print_vars>>

SkipLineBreak ==
    /\ Dispatching("line_break")
    /\ cursor' = cursor + read_line_break(buffer, cursor).val
    /\ UNCHANGED <<buffer, tokens, scan_result>>
    /\ UNCHANGED <<parse_vars, print_vars>>

PushCharToken ==
    /\ \E type \in {"OpenCurlyBrace", "ClosingCurlyBrace", "SemiColon"} :
          /\ Dispatching(type)
          /\ push_char_token(type, buffer[cursor + 1])
    /\ UNCHANGED <<buffer, scan_result>>
    /\ UNCHANGED <<parse_vars, print_vars>>

PushString ==
    /\ Dispatching("String")
    /\ push_token("String", read_string(buffer, cursor).val.val)
    /\ UNCHANGED <<buffer, scan_result>>
    /\ UNCHANGED <<parse_vars, print_vars>>

PushSingleLineComment ==
    /\ Dispatching("single_line_comment")
    /\ push_token("Comment", read_single_line_comment(buffer, cursor).val)
    /\ UNCHANGED <<buffer, scan_result>>
    /\ UNCHANGED <<parse_vars, print_vars>>

PushBlockComment ==
    /\ Dispatching("block_comment")
    /\ push_token("Comment", read_block_comment(buffer, cursor).val.val)
    /\ UNCHANGED <<buffer, scan_result>>
    /\ UNCHANGED <<parse_vars, print_vars>>

PushDate ==
    /\ Dispatching("Date")
    /\ push_token("Date", read_date(buffer, cursor).val)
    /\ UNCHANGED <<buffer, scan_result>>
    /\ UNCHANGED <<parse_vars, print_vars>>

PushOther ==
    /\ Dispatching("other")
    /\ LET text == read_other(buffer, cursor).val
       IN  IF IS_NUMBER(text) THEN push_token("Number", text)
           ELSE push_token("Other", text)
    /\ UNCHANGED <<buffer, scan_result>>
    /\ UNCHANGED <<parse_vars, print_vars>>

\* The ? on read_string and on read_block_comment.
ScanReadError ==
    /\ \/ /\ Dispatching("string_error")
          /\ scan_result' = read_string(buffer, cursor)
       \/ /\ Dispatching("block_comment_error")
          /\ scan_result' = read_block_comment(buffer, cursor)
    /\ UNCHANGED <<buffer, cursor, tokens>>
    /\ UNCHANGED <<parse_vars, print_vars>>

ScanFailed ==
    /\ Dispatching("failed")
    /\ scan_result' = Err([msg |-> "Failed to parse input at position", position |-> cursor])
    /\ UNCHANGED <<buffer, cursor, tokens>>
    /\ UNCHANGED <<parse_vars, print_vars>>

----------------------------------------------------------------------------
(* The scanned inputs *)

\* The pieces the scanned buffers are assembled from: single characters, the
\* comment delimiters, an escaped quote and a date-shaped run.
Pieces ==
    {<<c>> : c \in {" ", "\t", "\r", "\n", ";", "{", "}", "\"", "'", "\\", "/",
                    "0", "1", "-", ".", "a", WideChar}}
    \cup {<<"/", "*">>, <<"*", "/">>, <<"\\", "\"">>,
          <<"2", "0", "1", "8", "-", "1", "2", "-", "0", "3">>}

RECURSIVE Concat(_)
Concat(ps) == IF ps = <<>> THEN <<>> ELSE Head(ps) \o Concat(Tail(ps))

Buffers == {Concat(ps) : ps \in UNION {[1..n -> Pieces] : n \in 0..MaxPieces}}

ParseIdle ==
    /\ consumed = <<>>
    /\ upcoming = [item |-> "None"]
    /\ stack = <<>>
    /\ error = None
    /\ parse_result = [kind |-> "Idle"]

ScanInit ==
    /\ buffer \in Buffers
    /\ cursor = 0
    /\ tokens = <<>>
    /\ scan_result = [kind |-> "Running"]
    /\ ParseIdle
    /\ PrintIdle

ScanNext ==
    \/ ScanBreak
    \/ ScanPanic
    \/ SkipWhitespace
    \/ SkipLineBreak
    \/ PushCharToken
    \/ PushString
    \/ PushSingleLineComment
    \/ PushBlockComment
    \/ PushDate
    \/ PushOther
    \/ ScanReadError
    \/ ScanFailed

ScanSpec == ScanInit /\ [][ScanNext]_vars

ScanLiveInit ==
    /\ ScanInit
    /\ buffer \in {Concat(ps) : ps \in UNION {[1..n -> Pieces] : n \in 0..MaxLivePieces}}

\* scan runs its loop until it returns: an iteration that can be taken is
\* taken.
ScanLive == ScanLiveInit /\ [][ScanNext]_vars /\ WF_vars(ScanNext)

----------------------------------------------------------------------------
(* src/src/parsing.rs: keywords, values and nodes *)

\* The recognized statement keywords (crate::constants::STATEMENT_KEYWORDS):
\* the members the parser's smoke test and the specification name.
STATEMENT_KEYWORDS ==
    { <<"m", "o", "d", "u", "l", "e">>,
      <<"l", "e", "a", "f">>,
      <<"t", "y", "p", "e">>,
      <<"n", "a", "m", "e", "s", "p", "a", "c", "e">>,
      <<"d", "e", "s", "c", "r", "i", "p", "t", "i", "o", "n">>,
      <<"r", "e", "v", "i", "s", "i", "o", "n">>,
      <<"y", "a", "n", "g", "-", "v", "e", "r", "s", "i", "o", "n">> }

RECURSIVE ext_keyword_walk(_, _, _)
\* EXT_KEYWORD_PATTERN, ^[a-zA-Z_][a-zA-Z0-9\-_.]*:[a-zA-Z_][a-zA-Z0-9\-_.]*$,
\* walked over the text from index i; at is the position in the pattern:
\* 0 before the prefix, 1 inside it, 2 after the colon, 3 inside the name.
ext_keyword_walk(text, i, at) ==
    IF i > Len(text) THEN at = 3
    ELSE LET c == text[i]
             first == c \in Letter \cup {"_"}
             later == c \in Letter \cup Digit \cup {"-", "_", "."}
         IN  CASE at = 0 -> first /\ ext_keyword_walk(text, i + 1, 1)
               [] at = 1 -> \/ later /\ ext_keyword_walk(text, i + 1, 1)
                            \/ c = ":" /\ ext_keyword_walk(text, i + 1, 2)
               [] at = 2 -> first /\ ext_keyword_walk(text, i + 1, 3)
               [] at = 3 -> later /\ ext_keyword_walk(text, i + 1, 3)

EXT_KEYWORD_PATTERN(text) == ext_keyword_walk(text, 1, 0)

\* IDENTIFIER_PATTERN, ^[a-zA-Z_][a-zA-Z0-9\-_.]*$
IDENTIFIER_PATTERN(text) ==
    /\ text # <<>>
    /\ text[1] \in Letter \cup {"_"}
    /\ \A i \in 2..Len(text) : text[i] \in Letter \cup Digit \cup {"-", "_", "."}

Keyword(text) == [variant |-> "Keyword", text |-> text]
ExtensionKeyword(text) == [variant |-> "ExtensionKeyword", text |-> text]
Invalid(text) == [variant |-> "Invalid", text |-> text]

\* StatementKeyword with the other pattern of the file in the second test.
StatementKeyword_identifier_pattern(token) ==
    IF token.text \in STATEMENT_KEYWORDS THEN Keyword(token.text)
    ELSE IF IDENTIFIER_PATTERN(token.text) THEN ExtensionKeyword(token.text)
    ELSE Invalid(token.text)

\* impl From<&Token> for StatementKeyword
StatementKeyword(token) ==
    IF token.text \in STATEMENT_KEYWORDS THEN Keyword(token.text)
    ELSE IF EXT_KEYWORD_PATTERN(token.text) THEN ExtensionKeyword(token.text)
    ELSE Invalid(token.text)

\* impl From<&Token> for NodeValue
NodeValue(token) ==
    IF token.token_type \in {"String", "Number", "Date"}
    THEN [variant |-> token.token_type, text |-> token.text]
    ELSE [variant |-> "Other", text |-> token.text]

BlockNode(keyword, value, children) ==
    [node |-> "BlockNode", keyword |-> keyword, value |-> value, children |-> children]
LeafNode(keyword, value) ==
    [node |-> "LeafNode", keyword |-> keyword, value |-> value]
CommentNode(text) == [node |-> "CommentNode", text |-> text]
RootNode(children) == [children |-> children]

\* enum ParseState
Clean == [st |-> "Clean"]
GotKeyword(keyword) == [st |-> "GotKeyword", keyword |-> keyword]
GotValue(keyword, value) == [st |-> "GotValue", keyword |-> keyword, value |-> value]

----------------------------------------------------------------------------
(* src/src/parsing.rs: the match of parse_statements on one token.  The     *)
(* outcome says what the invocation does with the token: go on in a new    *)
(* state (after pushing the nodes in push), recurse for a block, or return. *)

Continue(state, push) == [do |-> "continue", state |-> state, push |-> push]
Recurse == [do |-> "recurse"]
ReturnOk == [do |-> "return_ok"]
ReturnErr(e) == [do |-> "return_err", err |-> e]

\* on_clean with every value-bearing kind taken as a keyword.
on_clean_any_value(token) ==
    CASE token.token_type \in {"WhiteSpace", "LineBreak"} -> Continue(Clean, <<>>)
      [] token.token_type = "Comment" -> Continue(Clean, <<CommentNode(token.text)>>)
      [] token.token_type = "ClosingCurlyBrace" -> ReturnOk
      [] token.token_type \in {"Other", "String", "Number", "Date"} ->
            Continue(GotKeyword(StatementKeyword(token)), <<>>)
      [] OTHER -> ReturnErr([msg |-> "Unexpected token", token |-> token])

\* on_clean with a stray `;` at statement start passed over.
on_clean_skips_semicolon(token) ==
    CASE token.token_type \in {"WhiteSpace", "LineBreak", "SemiColon"} -> Continue(Clean, <<>>)
      [] token.token_type = "Comment" -> Continue(Clean, <<CommentNode(token.text)>>)
      [] token.token_type = "ClosingCurlyBrace" -> ReturnOk
      [] token.token_type = "Other" -> Continue(GotKeyword(StatementKeyword(token)), <<>>)
      [] OTHER -> ReturnErr([msg |-> "Unexpected token", token |-> token])

\* ParseState::Clean
on_clean(token) ==
    CASE token.token_type \in {"WhiteSpace", "LineBreak"} -> Continue(Clean, <<>>)
      [] token.token_type = "Comment" -> Continue(Clean, <<CommentNode(token.text)>>)
      [] token.token_type = "ClosingCurlyBrace" -> ReturnOk
      [] token.token_type = "Other" -> Continue(GotKeyword(StatementKeyword(token)), <<>>)
      [] OTHER -> ReturnErr([msg |-> "Unexpected token", token |-> token])

\* on_got_keyword with `;` ending a statement that has no value.
on_got_keyword_bare_leaf(keyword, token) ==
    CASE token.token_type \in {"WhiteSpace", "LineBreak"} ->
            Continue(GotKeyword(keyword), <<>>)
      [] token.token_type = "OpenCurlyBrace" -> Recurse
      [] token.token_type = "SemiColon" -> Continue(Clean, <<LeafNode(keyword, None)>>)
      [] OTHER -> Continue(GotValue(keyword, NodeValue(token)), <<>>)

\* ParseState::GotKeyword(keyword)
on_got_keyword(keyword, token) ==
    CASE token.token_type \in {"WhiteSpace", "LineBreak"} ->
            Continue(GotKeyword(keyword), <<>>)
      [] token.token_type = "OpenCurlyBrace" -> Recurse
      [] token.token_type = "SemiColon" ->
            ReturnErr([msg |-> "Expected to find a value, not \";\""])
      [] OTHER -> Continue(GotValue(keyword, NodeValue(token)), <<>>)

\* on_got_value with the LeafNode of a terminated statement not pushed.
on_got_value_drops_leaf(keyword, value, token) ==
    CASE token.token_type \in {"WhiteSpace", "LineBreak"} ->
            Continue(GotValue(keyword, value), <<>>)
      [] token.token_type = "OpenCurlyBrace" -> Recurse
      [] token.token_type = "SemiColon" -> Continue(Clean, <<>>)
      [] OTHER -> ReturnErr([msg |-> "Expected semicolon or block, got", token |-> token])

\* on_got_value with a closing brace ending the block as it does in Clean.
on_got_value_close_returns(keyword, value, token) ==
    CASE token.token_type \in {"WhiteSpace", "LineBreak"} ->
            Continue(GotValue(keyword, value), <<>>)
      [] token.token_type = "OpenCurlyBrace" -> Recurse
      [] token.token_type = "SemiColon" -> Continue(Clean, <<LeafNode(keyword, value)>>)
      [] token.token_type = "ClosingCurlyBrace" -> ReturnOk
      [] OTHER -> ReturnErr([msg |-> "Expected semicolon or block, got", token |-> token])

\* ParseState::GotValue(keyword, value)
on_got_value(keyword, value, token) ==
    CASE token.token_type \in {"WhiteSpace", "LineBreak"} ->
            Continue(GotValue(keyword, value), <<>>)
      [] token.token_type = "OpenCurlyBrace" -> Recurse
      [] token.token_type = "SemiColon" -> Continue(Clean, <<LeafNode(keyword, value)>>)
      [] OTHER -> ReturnErr([msg |-> "Expected semicolon or block, got", token |-> token])

on_token(state, token) ==
    CASE state.st = "Clean" -> on_clean(token)
      [] state.st = "GotKeyword" -> on_got_keyword(state.keyword, token)
      [] state.st = "GotValue" -> on_got_value(state.keyword, state.value, token)

\* on_end with a pending statement dropped at the end of the stream.
on_end_never_fails(state) == ReturnOk

\* The None arm: the token stream has ended.
on_end(state) ==
    IF state.st = "Clean" THEN ReturnOk ELSE ReturnErr([msg |-> "Unexpected end of input"])

\* block_of with the pending value of the statement left out of its block.
block_of_no_value(state, children) == BlockNode(state.keyword, None, children)

\* The BlockNode a caller in the given state pushes when its recursive call
\* returns Ok(children).
block_of(state, children) ==
    IF state.st = "GotKeyword" THEN BlockNode(state.keyword, None, children)
    ELSE BlockNode(state.keyword, Some(state.value), children)

----------------------------------------------------------------------------
(* src/src/parsing.rs: parse and parse_statements.  The recursion is the    *)
(* stack: its last frame is the running invocation, the frames below are   *)
(* its callers, each waiting in the state it recursed from.                *)

Frame(statements, state) == [statements |-> statements, state |-> state]

Top == stack[Len(stack)]
Pop(s) == SubSeq(s, 1, Len(s) - 1)
SetTop(s, frame) == [s EXCEPT ![Len(s)] = frame]

\* An invocation of parse_statements is running its loop.
Parsing == parse_result.kind = "Running" /\ error = None /\ stack # <<>>

\* The tokens the iterator may yield: every TokenType of src/src/lexing.rs,
\* with texts that reach each variant of StatementKeyword and of NodeValue.
TokenAlphabet ==
    {[token_type |-> "Other", text |-> t] :
        t \in {<<"l", "e", "a", "f">>, <<"a", ":", "b">>, <<"f", "o", "o">>,
               <<"a", ":", "1">>, <<":", "b">>}}
    \cup {[token_type |-> "String", text |-> <<"\"", "s", "\"">>],
          [token_type |-> "Number", text |-> <<"1">>],
          [token_type |-> "Date",
           text |-> <<"2", "0", "1", "8", "-", "1", "2", "-", "0", "3">>],
          [token_type |-> "Comment", text |-> <<"/", "/", "c">>],
          [token_type |-> "OpenCurlyBrace", text |-> <<"{">>],
          [token_type |-> "ClosingCurlyBrace", text |-> <<"}">>],
          [token_type |-> "SemiColon", text |-> <<";">>]}

\* What tokens.next() may return after n tokens: a token, None at the end of
\* the input, or the scanner's failure on what follows.
Items(n) ==
    {[item |-> "None"], [item |-> "Fail"]}
    \cup IF n < MaxTokens THEN {[item |-> "Some", token |-> t] : t \in TokenAlphabet}
         ELSE {}

\* tokens.next() returns Some(token)
Yields(token) == upcoming = [item |-> "Some", token |-> token]

\* The iterator moves past the token it has returned.
Advance ==
    /\ consumed' = Append(consumed, upcoming.token)
    /\ upcoming' \in Items(Len(consumed) + 1)

\* return Ok(statements): to parse at the top level, else to the caller, which
\* pushes the block and goes on in Clean.
return_ok ==
    IF Len(stack) = 1
    THEN /\ parse_result' = Ok(RootNode(Top.statements))
         /\ stack' = <<>>
    ELSE LET caller == stack[Len(stack) - 1]
         IN  /\ stack' = SetTop(Pop(stack),
                    Frame(Append(caller.statements, block_of(caller.state, Top.statements)),
                          Clean))
             /\ UNCHANGED parse_result

\* return Err(e): the invocation ends and its statements are dropped.
return_err(e) ==
    /\ stack' = Pop(stack)
    /\ error' = Some(e)
    /\ UNCHANGED parse_result

TokenContinue ==
    /\ Parsing
    /\ \E token \in TokenAlphabet :
          LET out == on_token(Top.state, token)
          IN  /\ out.do = "continue"
              /\ Yields(token)
              /\ Advance
              /\ stack' = SetTop(stack, Frame(Top.statements \o out.push, out.state))
    /\ UNCHANGED <<error, parse_result>>
    /\ UNCHANGED <<scan_vars, print_vars>>

TokenRecurse ==
    /\ Parsing
    /\ \E token \in TokenAlphabet :
          /\ on_token(Top.state, token).do = "recurse"
          /\ Yields(token)
          /\ Advance
    /\ stack' = Append(stack, Frame(<<>>, Clean))
    /\ UNCHANGED <<error, parse_result>>
    /\ UNCHANGED <<scan_vars, print_vars>>

TokenReturnOk ==
    /\ Parsing
    /\ \E token \in TokenAlphabet :
          /\ on_token(Top.state, token).do = "return_ok"
          /\ Yields(token)
          /\ Advance
    /\ return_ok
    /\ UNCHANGED error
    /\ UNCHANGED <<scan_vars, print_vars>>

TokenReturnErr ==
    /\ Parsing
    /\ \E token \in TokenAlphabet :
          LET out == on_token(Top.state, token)
          IN  /\ out.do = "return_err"
              /\ Yields(token)
              /\ Advance
              /\ return_err(out.err)
    /\ UNCHANGED <<scan_vars, print_vars>>

\* tokens.next() returns None
EndReturnOk ==
    /\ Parsing
    /\ upcoming.item = "None"
    /\ on_end(Top.state).do = "return_ok"
    /\ return_ok
    /\ UNCHANGED <<consumed, upcoming, error>>
    /\ UNCHANGED <<scan_vars, print_vars>>

EndReturnErr ==
    /\ Parsing
    /\ upcoming.item = "None"
    /\ on_end(Top.state).do = "return_err"
    /\ return_err(on_end(Top.state).err)
    /\ UNCHANGED <<consumed, upcoming>>
    /\ UNCHANGED <<scan_vars, print_vars>>

\* The scanner fails instead of yielding the next token: the failure ends
\* the running invocation like any other error.
ScanFailure ==
    /\ Parsing
    /\ upcoming.item = "Fail"
    /\ return_err([msg |-> "scan failed"])
    /\ UNCHANGED <<consumed, upcoming>>
    /\ UNCHANGED <<scan_vars, print_vars>>

\* PropagateErr with the callee's error swallowed: the caller goes on.
PropagateErr_swallows ==
    /\ parse_result.kind = "Running"
    /\ error # None
    /\ stack # <<>>
    /\ error' = None
    /\ stack' = SetTop(stack, Frame(Top.statements, Clean))
    /\ UNCHANGED <<consumed, upcoming, parse_result>>
    /\ UNCHANGED <<scan_vars, print_vars>>

\* The ? on the recursive call: the caller returns the callee's error.
PropagateErr ==
    /\ parse_result.kind = "Running"
    /\ error # None
    /\ stack # <<>>
    /\ stack' = Pop(stack)
    /\ UNCHANGED <<consumed, upcoming, error, parse_result>>
    /\ UNCHANGED <<scan_vars, print_vars>>

\* The ? in parse: no RootNode is built.
ParseErr ==
    /\ parse_result.kind = "Running"
    /\ error # None
    /\ stack = <<>>
    /\ parse_result' = Err(error.val)
    /\ UNCHANGED <<consumed, upcoming, stack, error>>
    /\ UNCHANGED <<scan_vars, print_vars>>

ScanIdle ==
    /\ buffer = <<>>
    /\ cursor = 0
    /\ tokens = <<>>
    /\ scan_result = [kind |-> "Idle"]

\* parse has made the token iterator and called parse_statements.
Init ==
    /\ ScanIdle
    /\ consumed = <<>>
    /\ upcoming \in Items(0)
    /\ stack = <<Frame(<<>>, Clean)>>
    /\ error = None
    /\ parse_result = [kind |-> "Running"]
    /\ PrintIdle

Next ==
    \/ TokenContinue
    \/ TokenRecurse
    \/ TokenReturnOk
    \/ TokenReturnErr
    \/ EndReturnOk
    \/ EndReturnErr
    \/ ScanFailure
    \/ PropagateErr
    \/ ParseErr

Spec == Init /\ [][Next]_vars

----------------------------------------------------------------------------
(* src/src/formatting.rs: print_tree and print_node.  The recursion of      *)
(* print_node is print_stack: each frame is one loop over a list of        *)
(* children, with the nodes it has still to print and the depth it passes  *)
(* to print_node for each of them.                                         *)

\* The largest value of the type of depth, u8.
U8_MAX == 255

\* The printed trees are blocks opened one inside the other around a few
\* innermost statements.  The children of such a block are held as the
\* number of blocks nested below it and the innermost statements, and
\* Children gives them as the list of nodes they are.
NestedBlocks(n, innermost) ==
    IF n = 0 THEN innermost
    ELSE <<[node |-> "BlockNode", keyword |-> Keyword(<<"l", "e", "a", "f">>),
            value |-> None, nested |-> n - 1, innermost |-> innermost]>>

\* node.children of a BlockNode
Children(node) == NestedBlocks(node.nested, node.innermost)

\* The trees parse returns for up to MaxNesting blocks opened one inside the
\* other, around nothing or around a comment and a statement.
PrintedTrees ==
    {RootNode(NestedBlocks(n, innermost)) :
        n \in 0..MaxNesting,
        innermost \in {<<>>,
                       <<CommentNode(<<"/", "/", "c">>),
                         LeafNode(Keyword(<<"t", "y", "p", "e">>),
                                  NodeValue([token_type |-> "Other", text |-> <<"a">>]))>>}}

PrintFrame(nodes, depth) == [nodes |-> nodes, depth |-> depth]

PrintTop == print_stack[Len(print_stack)]

\* writeln and indent!: a new line that starts with two spaces per depth and
\* then holds the text of the node.
Line(depth, node) == [indent |-> 2 * depth, node |-> node.node]

\* print_node is entered for the next node of the running loop.
PrintingNode(kind) ==
    /\ print_result.kind = "Running"
    /\ print_stack # <<>>
    /\ PrintTop.nodes # <<>>
    /\ Head(PrintTop.nodes).node = kind

\* The running loop has printed its next node.
PrintedHead == SetTop(print_stack, PrintFrame(Tail(PrintTop.nodes), PrintTop.depth))

PrintLeafNode ==
    /\ PrintingNode("LeafNode")
    /\ out_lines' = Append(out_lines, Line(PrintTop.depth, Head(PrintTop.nodes)))
    /\ print_stack' = PrintedHead
    /\ UNCHANGED print_result
    /\ UNCHANGED <<scan_vars, parse_vars>>

PrintCommentNode ==
    /\ PrintingNode("CommentNode")
    /\ out_lines' = Append(out_lines, Line(PrintTop.depth, Head(PrintTop.nodes)))
    /\ print_stack' = PrintedHead
    /\ UNCHANGED print_result
    /\ UNCHANGED <<scan_vars, parse_vars>>

\* A block without children, or one whose children get depth + 1 within u8.
PrintBlockNode ==
    /\ PrintingNode("BlockNode")
    /\ LET node == Head(PrintTop.nodes)
       IN  /\ Children(node) = <<>> \/ PrintTop.depth < U8_MAX
           /\ out_lines' = Append(out_lines, Line(PrintTop.depth, node))
           /\ print_stack' =
                 IF Children(node) = <<>> THEN PrintedHead
                 ELSE Append(PrintedHead, PrintFrame(Children(node), PrintTop.depth + 1))
    /\ UNCHANGED print_result
    /\ UNCHANGED <<scan_vars, parse_vars>>

\* depth + 1 overflows u8 in a build with overflow checks: the program panics
\* after the line of the block has been written.
PrintBlockOverflowPanic ==
    /\ PrintingNode("BlockNode")
    /\ Children(Head(PrintTop.nodes)) # <<>>
    /\ PrintTop.depth = U8_MAX
    /\ out_lines' = Append(out_lines, Line(PrintTop.depth, Head(PrintTop.nodes)))
    /\ print_result' = [kind |-> "Panic", msg |-> "attempt to add with overflow"]
    /\ UNCHANGED print_stack
    /\ UNCHANGED <<scan_vars, parse_vars>>

\* depth + 1 overflows u8 in a build without overflow checks: it wraps.
PrintBlockOverflowWrap ==
    /\ PrintingNode("BlockNode")
    /\ Children(Head(PrintTop.nodes)) # <<>>
    /\ PrintTop.depth = U8_MAX
    /\ out_lines' = Append(out_lines, Line(PrintTop.depth, Head(PrintTop.nodes)))
    /\ print_stack' = Append(PrintedHead,
                             PrintFrame(Children(Head(PrintTop.nodes)),
                                        (PrintTop.depth + 1) % (U8_MAX + 1)))
    /\ UNCHANGED print_result
    /\ UNCHANGED <<scan_vars, parse_vars>>

\* The loop over the children of a block is over: print_node returns.
PrintReturn ==
    /\ print_result.kind = "Running"
    /\ Len(print_stack) > 1
    /\ PrintTop.nodes = <<>>
    /\ print_stack' = Pop(print_stack)
    /\ UNCHANGED <<out_lines, print_result>>
    /\ UNCHANGED <<scan_vars, parse_vars>>

\* The loop over the children of the root is over: print_tree returns.
PrintDone ==
    /\ print_result.kind = "Running"
    /\ Len(print_stack) = 1
    /\ PrintTop.nodes = <<>>
    /\ print_stack' = <<>>
    /\ print_result' = [kind |-> "Ok"]
    /\ UNCHANGED out_lines
    /\ UNCHANGED <<scan_vars, parse_vars>>

\* parse has returned a tree, and print_tree has written "(root" and starts
\* its loop over the children of the root with depth 1.
PrintInit ==
    /\ ScanIdle
    /\ consumed = <<>>
    /\ upcoming = [item |-> "None"]
    /\ stack = <<>>
    /\ error = None
    /\ \E root \in PrintedTrees :
          /\ parse_result = Ok(root)
          /\ print_stack = <<PrintFrame(root.children, 1)>>
    /\ out_lines = <<[indent |-> 0, node |-> "RootNode"]>>
    /\ print_result = [kind |-> "Running"]

PrintNext ==
    \/ PrintLeafNode
    \/ PrintCommentNode
    \/ PrintBlockNode
    \/ PrintBlockOverflowPanic
    \/ PrintBlockOverflowWrap
    \/ PrintReturn
    \/ PrintDone

PrintSpec == PrintInit /\ [][PrintNext]_vars

----------------------------------------------------------------------------
(* Claims about the parser, checked under Spec *)

LastOf(s) == s[Len(s)]

\* The running invocation is in a state of the given kind and this step
\* hands it a token of one of the given types.
Pulls(st, types) ==
    /\ Parsing
    /\ Top.state.st = st
    /\ Len(consumed') = Len(consumed) + 1
    /\ LastOf(consumed').token_type \in types

\* The step leaves the running invocation in place, in GotKeyword of the
\* classified token, with its statements as they were.
BecomesKeyword ==
    /\ error' = None
    /\ stack' = SetTop(stack, Frame(Top.statements,
                                    GotKeyword(StatementKeyword(LastOf(consumed')))))

\* The step ends the running invocation with the unexpected-token error.
FailsUnexpected ==
    /\ error' = Some([msg |-> "Unexpected token", token |-> LastOf(consumed')])
    /\ stack' = Pop(stack)

\* C1, as claimed: in Clean, a token of kind Other, String, Number or Date is
\* classified as a statement keyword and the state becomes GotKeyword; none
\* of the four kinds fails.
C1_AnyValueKindStartsStatement ==
    [][Pulls("Clean", {"Other", "String", "Number", "Date"}) => BecomesKeyword]_vars

\* C1, amended: in Clean, a token of kind Other is classified as a statement
\* keyword and the state becomes GotKeyword(keyword) without failing; a token
\* of kind String, Number or Date ends the invocation with the
\* unexpected-token error.
C1_OnlyOtherStartsStatement ==
    [][/\ Pulls("Clean", {"Other"}) => BecomesKeyword
       /\ Pulls("Clean", {"String", "Number", "Date"}) => FailsUnexpected]_vars

\* C1: a block was opened after a keyword, and inside it a String, Number or
\* Date token at statement start was refused.
C1_Witness ==
    /\ error # None
    /\ error.val.msg = "Unexpected token"
    /\ error.val.token.token_type \in {"String", "Number", "Date"}
    /\ Len(consumed) >= 3
    /\ consumed[1].token_type = "Other"

Semi == [token_type |-> "SemiColon", text |-> <<";">>]

\* The Other tokens whose text is neither a recognized keyword nor of the
\* form identifier:identifier.
PlainOtherTokens ==
    {t \in TokenAlphabet :
        /\ t.token_type = "Other"
        /\ t.text \notin STATEMENT_KEYWORDS
        /\ \A i \in 1..Len(t.text) : t.text[i] # ":"}

\* The whole input was the given tokens and parse has returned.
ParsedInput(ts) ==
    /\ consumed = ts
    /\ upcoming.item = "None"
    /\ parse_result.kind \in {"Ok", "Err"}

OneInvalidLeaf(result, text) ==
    /\ result.kind = "Ok"
    /\ Len(result.val.children) = 1
    /\ result.val.children[1].node = "LeafNode"
    /\ result.val.children[1].keyword = [variant |-> "Invalid", text |-> text]

\* C2, as claimed: for the input `foo;` (one keyword token outside the
\* recognized set, then `;`) parse succeeds with exactly one LeafNode whose
\* keyword is Invalid(foo).
C2_BareKeywordIsLeaf ==
    \A k \in PlainOtherTokens :
        ParsedInput(<<k, Semi>>) => OneInvalidLeaf(parse_result, k.text)

\* C2, amended: for the input `foo bar;` (an unrecognized keyword token, one
\* value token of kind String, Number, Date or Other, then `;`) parse
\* succeeds with exactly one LeafNode, whose keyword is Invalid(foo) and
\* whose value is that token; for `foo;` parse fails with the missing-value
\* error.
C2_InvalidKeywordWithValueIsLeaf ==
    \A k \in PlainOtherTokens :
        /\ \A v \in TokenAlphabet :
              (v.token_type \in {"String", "Number", "Date", "Other"}
               /\ ParsedInput(<<k, v, Semi>>))
              => /\ OneInvalidLeaf(parse_result, k.text)
                 /\ parse_result.val.children[1].value
                       = [variant |-> v.token_type, text |-> v.text]
        /\ ParsedInput(<<k, Semi>>)
              => parse_result = Err([msg |-> "Expected to find a value, not \";\""])

\* C2: `foo "s";` has been parsed.
C2_Witness ==
    /\ parse_result.kind = "Ok"
    /\ Len(consumed) = 3
    /\ consumed[1] = [token_type |-> "Other", text |-> <<"f", "o", "o">>]
    /\ consumed[2].token_type = "String"
    /\ consumed[3] = Semi
    /\ upcoming.item = "None"

IsIdentifier(t) ==
    /\ t # <<>>
    /\ t[1] \in Letter \cup {"_"}
    /\ \A i \in 2..Len(t) : t[i] \in Letter \cup Digit \cup {"-", "_", "."}

\* identifier ":" identifier
IsPrefixedName(t) ==
    \E i \in 1..Len(t) :
        /\ t[i] = ":"
        /\ IsIdentifier(SubSeq(t, 1, i - 1))
        /\ IsIdentifier(SubSeq(t, i + 1, Len(t)))

ExpectedVariant(t) ==
    IF t \in STATEMENT_KEYWORDS THEN "Keyword"
    ELSE IF IsPrefixedName(t) THEN "ExtensionKeyword"
    ELSE "Invalid"

\* A callee returns Ok to its caller in this step.
ReturnsToCaller ==
    /\ Parsing
    /\ Len(stack) >= 2
    /\ Len(stack') = Len(stack) - 1
    /\ error' = None

\* C3: classification is total and ordered: the keyword of every statement
\* started in Clean keeps the token text and is Keyword if the text is in
\* the recognized set, else ExtensionKeyword if it is identifier:identifier,
\* else Invalid, and starting it never fails; a statement whose keyword is
\* Invalid, once it has a value, is kept as a node: `;` appends its LeafNode
\* and a block that returns appends its BlockNode, without an error.
C3_ClassificationTotalOrdered ==
    [][/\ Pulls("Clean", {"Other"}) =>
             /\ error' = None
             /\ Len(stack') = Len(stack)
             /\ LastOf(stack').state.st = "GotKeyword"
             /\ LastOf(stack').state.keyword
                   = [variant |-> ExpectedVariant(LastOf(consumed').text),
                      text |-> LastOf(consumed').text]
       /\ (Pulls("GotValue", {"SemiColon"}) /\ Top.state.keyword.variant = "Invalid") =>
             /\ error' = None
             /\ stack' = SetTop(stack,
                    Frame(Append(Top.statements,
                                 [node |-> "LeafNode", keyword |-> Top.state.keyword,
                                  value |-> Top.state.value]),
                          Clean))
       /\ (ReturnsToCaller /\ stack[Len(stack) - 1].state.keyword.variant = "Invalid") =>
             LET caller == stack[Len(stack) - 1]
                 node == LastOf(LastOf(stack').statements)
             IN  /\ Len(LastOf(stack').statements) = Len(caller.statements) + 1
                 /\ node.node = "BlockNode"
                 /\ node.keyword = caller.state.keyword
                 /\ node.children = Top.statements]_vars

\* C3: a tree was returned whose only node is a closed block with an Invalid
\* keyword and a value.
C3_Witness ==
    /\ parse_result.kind = "Ok"
    /\ Len(parse_result.val.children) = 1
    /\ parse_result.val.children[1].node = "BlockNode"
    /\ parse_result.val.children[1].keyword.variant = "Invalid"
    /\ parse_result.val.children[1].value.some
    /\ LastOf(consumed).token_type = "ClosingCurlyBrace"

\* C4: whenever parse returns successfully, the token stream has been
\* consumed to its end: no input is left unread.
C4_SuccessConsumesWholeStream ==
    parse_result.kind = "Ok" => upcoming.item = "None"

\* The step ends the running invocation with the error of GotValue.
FailsExpectedTerminator ==
    /\ error' = Some([msg |-> "Expected semicolon or block, got",
                      token |-> LastOf(consumed')])
    /\ stack' = Pop(stack)

TokenTexts(ts) == [i \in 1..Len(ts) |-> ts[i].text]

RECURSIVE Unparse(_)
\* The token texts a sequence of nodes stands for, in source order.
Unparse(nodes) ==
    IF nodes = <<>> THEN <<>>
    ELSE LET n == Head(nodes)
             own == CASE n.node = "CommentNode" -> <<n.text>>
                      [] n.node = "LeafNode" -> <<n.keyword.text, n.value.text, <<";">>>>
                      [] n.node = "BlockNode" ->
                            <<n.keyword.text>>
                            \o (IF n.value.some THEN <<n.value.val.text>> ELSE <<>>)
                            \o <<<<"{">>>> \o Unparse(n.children) \o <<<<"}">>>>
         IN  own \o Unparse(Tail(nodes))

\* The tree is the source read back: the texts of its nodes, in order, are
\* the texts of the given tokens, up to closing braces the source lacks at
\* its end.
Mirrors(tree, ts) ==
    \E n \in 0..Len(ts) :
        Unparse(tree) = TokenTexts(ts) \o [i \in 1..n |-> <<"}">>]

\* C6: for every token stream that parses successfully the tree mirrors the
\* source: no comment and no statement of the stream is left out of it (none
\* is still unread when parse returns), blocks hold what lies between their
\* braces, and children keep the stream's order.
C6_TreeMirrorsSource ==
    parse_result.kind = "Ok" =>
        /\ upcoming.item = "Some" => upcoming.token.token_type \notin {"Comment", "Other"}
        /\ \/ Mirrors(parse_result.val.children, consumed)
           \/ /\ consumed # <<>>
              /\ LastOf(consumed).token_type = "ClosingCurlyBrace"
              /\ Mirrors(parse_result.val.children, SubSeq(consumed, 1, Len(consumed) - 1))

FailsMissingValue ==
    /\ error' = Some([msg |-> "Expected to find a value, not \";\""])
    /\ stack' = Pop(stack)

\* Invocation i, active before and after the step, has more or other
\* statements after it.
Grows(i) ==
    /\ i <= Len(stack)
    /\ i <= Len(stack')
    /\ stack'[i].statements # stack[i].statements

\* C15: in GotKeyword, a SemiColon ends the invocation with the
\* missing-value error, and a LeafNode is only ever created by an invocation
\* in GotValue, with the value of that state.
C15_SemicolonAfterKeywordFails ==
    [][/\ Pulls("GotKeyword", {"SemiColon"}) => FailsMissingValue
       /\ \A i \in 1..Len(stack') :
             (Grows(i) /\ LastOf(stack'[i].statements).node = "LeafNode") =>
                 /\ i = Len(stack)
                 /\ Top.state.st = "GotValue"
                 /\ LastOf(stack'[i].statements).value = Top.state.value]_vars

\* C15: parse has returned the missing-value error for a keyword followed
\* by `;` inside a block.
C15_Witness ==
    /\ parse_result = Err([msg |-> "Expected to find a value, not \";\""])
    /\ LastOf(consumed) = Semi
    /\ \E i \in 1..Len(consumed) : consumed[i].token_type = "OpenCurlyBrace"

\* The number of consumed tokens of the given type.
Count(type) == Cardinality({i \in 1..Len(consumed) : consumed[i].token_type = type})

\* The running invocation finds the token stream at its end.
AtEnd == Parsing /\ upcoming.item = "None"

\* C16: when the token stream ends, the running invocation, at whatever
\* nesting level, returns its accumulated statements successfully if its
\* state is Clean (to parse as the root's children, or to its caller as the
\* children of the block it was called for) and ends with the
\* unexpected-end-of-input error if its state is GotKeyword or GotValue.
C16_EndOfStream ==
    [][AtEnd =>
          IF Top.state.st = "Clean"
          THEN /\ error' = None
               /\ IF Len(stack) = 1
                  THEN /\ parse_result' = [kind |-> "Ok",
                                           val |-> [children |-> Top.statements]]
                       /\ stack' = <<>>
                  ELSE LET caller == stack[Len(stack) - 1]
                           after == LastOf(stack')
                       IN  /\ Len(stack') = Len(stack) - 1
                           /\ Len(after.statements) = Len(caller.statements) + 1
                           /\ LastOf(after.statements).node = "BlockNode"
                           /\ LastOf(after.statements).children = Top.statements
                           /\ after.state = [st |-> "Clean"]
                           /\ parse_result' = parse_result
          ELSE /\ error' = Some([msg |-> "Unexpected end of input"])
               /\ stack' = Pop(stack)]_vars

\* C16: an input whose opened block is never closed has parsed successfully:
\* the tree holds the block although the stream ended inside it.
C16_Witness ==
    /\ parse_result.kind = "Ok"
    /\ upcoming.item = "None"
    /\ Count("OpenCurlyBrace") > Count("ClosingCurlyBrace")
    /\ LastOf(parse_result.val.children).node = "BlockNode"

RECURSIVE Values(_)
\* The values stored in the LeafNodes and BlockNodes of a sequence of nodes.
Values(nodes) ==
    IF nodes = <<>> THEN {}
    ELSE LET n == Head(nodes)
             own == CASE n.node = "CommentNode" -> {}
                      [] n.node = "LeafNode" -> {n.value}
                      [] n.node = "BlockNode" ->
                            (IF n.value.some THEN {n.value.val} ELSE {})
                            \cup Values(n.children)
         IN  own \cup Values(Tail(nodes))

\* C17: every value stored in a returned tree comes from a consumed token of
\* kind String, Number, Date or Other, has the variant of that kind and keeps
\* the token's text; a ClosingCurlyBrace or Comment token after a keyword is
\* never stored as a value.
C17_ValuesComeFromValueTokens ==
    parse_result.kind = "Ok" =>
        \A v \in Values(parse_result.val.children) :
            \E i \in 1..Len(consumed) :
                /\ consumed[i].token_type \in {"String", "Number", "Date", "Other"}
                /\ v = [variant |-> consumed[i].token_type, text |-> consumed[i].text]

\* C18: each statement terminator appends exactly one node to the current
\* level and resets its state to Clean: OpenCurlyBrace in GotKeyword(k) or
\* GotValue(k, v) starts a fresh recursive call, and when that call returns
\* its caller appends BlockNode{k, None or Some(v), the returned children};
\* SemiColon in GotValue(k, v) appends LeafNode{k, v}; no other step appends
\* a BlockNode or LeafNode.
C18_TerminatorsAppendOneNode ==
    [][/\ Pulls("GotKeyword", {"OpenCurlyBrace"}) \/ Pulls("GotValue", {"OpenCurlyBrace"})
             => /\ stack' = Append(stack, [statements |-> <<>>, state |-> [st |-> "Clean"]])
                /\ error' = None
       /\ ReturnsToCaller =>
             LET caller == stack[Len(stack) - 1]
                 value == IF caller.state.st = "GotValue"
                          THEN [some |-> TRUE, val |-> caller.state.value]
                          ELSE [some |-> FALSE]
             IN  stack' = SetTop(Pop(stack),
                     [statements |->
                         Append(caller.statements,
                                [node |-> "BlockNode", keyword |-> caller.state.keyword,
                                 value |-> value, children |-> Top.statements]),
                      state |-> [st |-> "Clean"]])
       /\ Pulls("GotValue", {"SemiColon"}) =>
             stack' = SetTop(stack,
                 [statements |->
                     Append(Top.statements,
                            [node |-> "LeafNode", keyword |-> Top.state.keyword,
                             value |-> Top.state.value]),
                  state |-> [st |-> "Clean"]])
       /\ \A i \in 1..Len(stack') :
             /\ i > Len(stack) => stack'[i].statements = <<>>
             /\ Grows(i) =>
                   /\ Len(stack'[i].statements) = Len(stack[i].statements) + 1
                   /\ SubSeq(stack'[i].statements, 1, Len(stack[i].statements))
                         = stack[i].statements
                   /\ LastOf(stack'[i].statements).node = "LeafNode"
                         => Pulls("GotValue", {"SemiColon"}) /\ i = Len(stack)
                   /\ LastOf(stack'[i].statements).node = "BlockNode"
                         => ReturnsToCaller /\ i = Len(stack) - 1]_vars

\* C18: a tree was returned that holds the block of a statement with a
\* recognized keyword and a value, closed by its brace.
C18_Witness ==
    /\ parse_result.kind = "Ok"
    /\ Len(parse_result.val.children) = 1
    /\ parse_result.val.children[1].node = "BlockNode"
    /\ parse_result.val.children[1].keyword.variant = "Keyword"
    /\ parse_result.val.children[1].value.some
    /\ Count("ClosingCurlyBrace") = 1

\* C19: in Clean, a SemiColon or OpenCurlyBrace token ends the invocation
\* with the unexpected-token error, at the start of the input as well as
\* directly after a closed block, and parse then returns no tree.
C19_StrayTerminatorFails ==
    [][/\ Pulls("Clean", {"SemiColon", "OpenCurlyBrace"}) =>
             /\ FailsUnexpected
             /\ parse_result' = parse_result
       /\ (error # None /\ error.val.msg = "Unexpected token" /\ stack = <<>>
           /\ parse_result.kind = "Running")
             => parse_result' = [kind |-> "Err", err |-> error.val]]_vars

\* C19: a `;` or `{` directly after a closed block was refused.
C19_Witness ==
    /\ parse_result.kind = "Err"
    /\ parse_result.err.msg = "Unexpected token"
    /\ parse_result.err.token.token_type \in {"SemiColon", "OpenCurlyBrace"}
    /\ Len(consumed) >= 2
    /\ consumed[Len(consumed) - 1].token_type = "ClosingCurlyBrace"

\* C20: while invocations are running and the token stream has not ended,
\* the number of active parse_statements invocations is 1 plus the number of
\* OpenCurlyBrace tokens consumed minus the number of ClosingCurlyBrace
\* tokens consumed: each `{` opens one level and each `}` closes one.
C20_DepthMatchesBraces ==
    (Parsing /\ upcoming.item # "None") =>
        Len(stack) = 1 + Count("OpenCurlyBrace") - Count("ClosingCurlyBrace")

----------------------------------------------------------------------------
(* Claims about the scanner, checked under ScanSpec *)

\* C8: the scanner skips space, tab, CR and LF without failing, a CR without
\* a following LF included: scan never ends with the failed-to-parse error.
C8_WhitespaceNeverFails ==
    ~(/\ scan_result.kind = "Err"
      /\ scan_result.err.msg = "Failed to parse input at position")

Delimiters == {" ", "\t", "\r", "\n", ";", "{", "}"}

\* Index c of b starts a raw run: its character is no delimiter and begins
\* neither a string nor a comment.
RawRunStart(b, c) ==
    /\ c < Len(b)
    /\ b[c + 1] \notin Delimiters \cup {"\"", "'"}
    /\ ~(b[c + 1] = "/" /\ c + 1 < Len(b) /\ b[c + 2] \in {"/", "*"})

\* The maximal run of non-delimiter characters of b from index c.
RawRun(b, c) ==
    LET end == CHOOSE e \in c..Len(b) :
                  /\ \A i \in (c + 1)..e : b[i] \notin Delimiters
                  /\ e = Len(b) \/ b[e + 1] \in Delimiters
    IN  SubSeq(b, c + 1, end)

\* ^-?(0|[1-9]\d*(\.\d+)?)$, read as a description of the text: an optional
\* minus, then "0" alone, or digits that start with 1-9 and hold at most one
\* dot, which is neither first nor last.
NumberShaped(t) ==
    LET u == IF t # <<>> /\ t[1] = "-" THEN SubSeq(t, 2, Len(t)) ELSE t
        dots == {i \in 1..Len(u) : u[i] = "."}
    IN  \/ u = <<"0">>
        \/ /\ u # <<>>
           /\ u[1] \in Digit \ {"0"}
           /\ Cardinality(dots) <= 1
           /\ \A i \in 1..Len(u) : u[i] \in Digit \/ (i \in dots /\ i < Len(u))

\* ^\d{4}-\d{2}-\d{2}$
DateShaped(t) ==
    /\ Len(t) = 10
    /\ \A i \in 1..10 : IF i \in {5, 8} THEN t[i] = "-" ELSE t[i] \in Digit

\* The scan loop is at the start of a raw run.
AtRawRun == Scanning /\ RawRunStart(buffer, cursor)

\* This step pushes exactly one token, of the given type.
Pushes(type) ==
    /\ Len(tokens') = Len(tokens) + 1
    /\ LastOf(tokens').token_type = type

\* C9: a raw run yields a Number token if and only if the whole run matches
\* ^-?(0|[1-9]\d*(\.\d+)?)$.
C9_NumberIffPattern ==
    [][AtRawRun => (Pushes("Number") <=> NumberShaped(RawRun(buffer, cursor)))]_vars

\* C9: a scan has ended that pushed a Number token for a run with a minus
\* sign or a fraction.
C9_Witness ==
    /\ scan_result.kind = "Ok"
    /\ \E i \in 1..Len(tokens) :
          /\ tokens[i].token_type = "Number"
          /\ Len(tokens[i].text) >= 2

\* C10: every raw run produces exactly one token whose text is the whole
\* run, and the token is Date if and only if the whole run matches
\* ^\d{4}-\d{2}-\d{2}$.
C10_OneTokenPerRawRun ==
    [][AtRawRun =>
          /\ Len(tokens') = Len(tokens) + 1
          /\ LastOf(tokens').text = RawRun(buffer, cursor)
          /\ Pushes("Date") <=> DateShaped(RawRun(buffer, cursor))]_vars

\* The scan loop is at a quote character: a string opens here.
AtString == Scanning /\ CharIn(buffer, cursor, {"\"", "'"})

\* The buffer indices after index c that hold the quote character of index c
\* and do not directly follow a backslash.
ClosingQuotes(b, c) ==
    {j \in (c + 1)..(Len(b) - 1) : b[j + 1] = b[c + 1] /\ b[j] # "\\"}

Min(S) == CHOOSE x \in S : \A y \in S : x <= y

AtBlockComment ==
    Scanning /\ CharIn(buffer, cursor, {"/"}) /\ CharIn(buffer, cursor + 1, {"*"})

\* The buffer indices after the opening of a block comment at index c where
\* the two characters that close it stand.
Terminators(b, c) ==
    {j \in (c + 2)..(Len(b) - 2) : b[j + 1] = "*" /\ b[j + 2] = "/"}

Max(S) == CHOOSE x \in S : \A y \in S : x >= y

\* The 1-based line and column of buffer index c: one more than the number
\* of LF characters before it, one more than the number of characters since
\* the last of them.
LineColumn(b, c) ==
    LET lfs == {i \in 1..c : b[i] = "\n"}
    IN  [line |-> 1 + Cardinality(lfs),
         col |-> 1 + c - (IF lfs = {} THEN 0 ELSE Max(lfs))]

\* C12: when a string opened at a dispatch position has no terminating quote,
\* or a block comment opened there has no closing, scan fails in that step
\* without pushing a token, and the error names the 1-based line and column
\* of the opening character.
C12_UnterminatedFailsWithPosition ==
    [][/\ (AtString /\ ClosingQuotes(buffer, cursor) = {}) =>
             /\ scan_result' = Err([msg |-> "string was never terminated",
                                    at |-> LineColumn(buffer, cursor)])
             /\ tokens' = tokens
       /\ (AtBlockComment /\ Terminators(buffer, cursor) = {}) =>
             /\ scan_result' = Err([msg |-> "block comment was never terminated",
                                    at |-> LineColumn(buffer, cursor)])
             /\ tokens' = tokens]_vars

\* C12: scan has failed on a string or comment opened on the second line,
\* after a first character of that line.
C12_Witness ==
    /\ scan_result.kind = "Err"
    /\ scan_result.err.msg \in {"string was never terminated",
                                "block comment was never terminated"}
    /\ scan_result.err.at = [line |-> 2, col |-> 2]

\* The token texts, in scan order, with whitespace runs between them, are the
\* buffer b from index i on.
RECURSIVE Reproduces(_, _, _)
Reproduces(b, i, ts) ==
    \E k \in i..Len(b) :
        /\ \A j \in (i + 1)..k : b[j] \in {" ", "\t", "\r", "\n"}
        /\ IF ts = <<>> THEN k = Len(b)
           ELSE LET text == Head(ts).text
                IN  /\ k + Len(text) <= Len(b)
                    /\ SubSeq(b, k + 1, k + Len(text)) = text
                    /\ Reproduces(b, k + Len(text), Tail(ts))

\* C13: in the token list scan returns, spans are inclusive and strictly
\* increasing without overlap, the length of each text is end - start + 1,
\* and each text is the buffer slice at its span, for every input.
C13_SpansMatchTexts ==
    scan_result.kind = "Ok" =>
        \A i \in 1..Len(tokens) :
            LET start == tokens[i].span[1]
                end == tokens[i].span[2]
            IN  /\ start <= end
                /\ end < Len(buffer)
                /\ Len(tokens[i].text) = end - start + 1
                /\ tokens[i].text = SubSeq(buffer, start + 1, end + 1)
                /\ i > 1 => start > tokens[i - 1].span[2]

\* C14: whenever scan succeeds, the token texts in span order with the
\* original whitespace runs between them reproduce the buffer exactly: no
\* other character is skipped or duplicated.
C14_RoundTrip ==
    scan_result.kind = "Ok" => Reproduces(buffer, 0, tokens)

\* C21: a block comment token starting at the two opening characters ends at
\* the first closing pair that begins at or after the position following the
\* opening, both delimiters included in its text, and the cursor resumes
\* immediately after that closing pair.
C21_BlockCommentEndsAtFirstClose ==
    [][(AtBlockComment /\ Terminators(buffer, cursor) # {}) =>
          LET close == Min(Terminators(buffer, cursor))
          IN  /\ Pushes("Comment")
              /\ LastOf(tokens').text = SubSeq(buffer, cursor + 1, close + 2)
              /\ cursor' = close + 2]_vars

\* The scan loop is at the two slashes that open a single-line comment.
AtLineComment ==
    Scanning /\ CharIn(buffer, cursor, {"/"}) /\ CharIn(buffer, cursor + 1, {"/"})

\* A line break, LF or CR LF, begins at index i of b.
LineBreakAt(b, i) ==
    \/ CharIn(b, i, {"\n"})
    \/ CharIn(b, i, {"\r"}) /\ CharIn(b, i + 1, {"\n"})

\* The index at which a single-line comment opened at index c ends: that of
\* the next line break, or the length of the buffer.
LineCommentEnd(b, c) ==
    Min({i \in (c + 2)..Len(b) : i = Len(b) \/ LineBreakAt(b, i)})

\* C22: a single-line comment token extends from its two slashes to, but not
\* including, the next line break or the end of the buffer, whatever
\* delimiters lie in between; the cursor is then at that line break, which
\* the next step skips without pushing a token.
C22_LineCommentStopsBeforeBreak ==
    [][/\ AtLineComment =>
             /\ Pushes("Comment")
             /\ LastOf(tokens').text
                   = SubSeq(buffer, cursor + 1, LineCommentEnd(buffer, cursor))
             /\ cursor' = LineCommentEnd(buffer, cursor)
       /\ (Scanning /\ LineBreakAt(buffer, cursor)) =>
             /\ tokens' = tokens
             /\ cursor' > cursor]_vars

C24_CursorStaysInBuffer ==
    /\ cursor <= Len(buffer)
    /\ scan_result.kind # "Panic"

----------------------------------------------------------------------------
(* Claims about the pretty-printer, checked under PrintSpec *)

\* C25: every node is written on its own line, indented by exactly 2 spaces
\* per depth, root children at depth 1 and each nesting level one deeper,
\* for trees of any nesting depth, and the depth counter never overflows:
\* printing never panics.
C25_TwoSpacesPerDepth ==
    [][/\ Len(out_lines') > Len(out_lines) =>
             /\ Len(out_lines') = Len(out_lines) + 1
             /\ LastOf(out_lines').indent = 2 * Len(print_stack)
       /\ print_result'.kind # "Panic"]_vars

====
